---- MODULE Spec2Model ----
(***************************************************************************)
(* Model of the zm_device actor (src/src/zm_device.c): the event loop, the *)
(* supervisor command handler, the Malamute connection set-up and the      *)
(* mailbox protocol handler, together with the device registry             *)
(* (zm_devices_t), the protocol message (zm_proto_t) and the Malamute      *)
(* client (mlm_client_t) as far as the actor drives them.                  *)
(***************************************************************************)
EXTENDS Integers, Sequences, FiniteSets, TLC

----------------------------------------------------------------------------
(* Bounds and input sets                                                   *)

\* number of distinct timestamps a request may carry
MaxTime == 2

\* a NULL char pointer, and a NULL object pointer
NULL == "NULL"
Nil == [nil |-> TRUE]

Names == {"device1", "device2"}
Times == 1..MaxTime
Senders == {"writer"}
FileNames == {"f1", "f2"}

\* ZM_PROTO_DEVICE_STREAM, endpoint and address as zm_device_test uses them
DeviceStream == "ZM_PROTO_DEVICE_STREAM"
TestEndpoint == "inproc://zm-device-test"
TestAddress == "it.zmon.device"
TestSize == 1024

Subjects == {"INSERT", "DELETE", "LOOKUP", "GET-ALL", "PUBLISH-ALL", "FOO"}
Commands == {"START", "STOP", "VERBOSE", "$TERM", "CONFIG", "BOGUS"}
Deliveries == {"MAILBOX DELIVER", "STREAM DELIVER", "SERVICE DELIVER"}

----------------------------------------------------------------------------
(* zm_proto_t: the protocol message.  ext is the annotation block, a set   *)
(* of <<key, value>> pairs with at most one pair per key; values are       *)
(* strings, as on the wire.                                                *)

Proto(id, device, time, size, ext, code) ==
    [id |-> id, device |-> device, time |-> time, size |-> size,
     ext |-> ext, code |-> code]

\* zm_proto_new: an empty message
zm_proto_new == Proto("NONE", NULL, 0, 0, {}, 0)

\* zm_proto_encode_device_v1 (name, time, size, ext)
zm_proto_encode_device_v1(name, time, size, ext) ==
    Proto("DEVICE", name, time, size, ext, 0)

\* zm_proto_encode_ok: the message becomes an OK status
zm_proto_encode_ok(m) == Proto("OK", NULL, 0, 0, {}, 0)

\* zm_proto_encode_error: the message becomes an ERROR status with a code
zm_proto_encode_error(m, code) == Proto("ERROR", NULL, 0, 0, {}, code)

\* decimal text of a small natural number, as "%d" prints it
Digit(n) == <<"0", "1", "2", "3", "4", "5", "6", "7", "8", "9">>[n + 1]
RECURSIVE IntToStr(_)
IntToStr(n) == IF n < 10 THEN Digit(n) ELSE IntToStr(n \div 10) \o Digit(n % 10)

\* zm_proto_ext_set_int: ext [key] = decimal text of value, replacing the old one
zm_proto_ext_set_int(m, key, value) ==
    [m EXCEPT !.ext = {p \in @ : p[1] # key} \cup {<<key, IntToStr(value)>>}]

\* has the annotation block an entry under key?
ext_has(m, key) == \E p \in m.ext : p[1] = key

\* zm_proto_ext_int: the number under key, or dflt when key is absent or no number
zm_proto_ext_int(m, key, dflt) ==
    IF \E n \in 0..99 : <<key, IntToStr(n)>> \in m.ext
    THEN CHOOSE n \in 0..99 : <<key, IntToStr(n)>> \in m.ext
    ELSE dflt

\* requests the clients send
DeviceInputs ==
    {zm_proto_encode_device_v1(n, t, TestSize, {}) : n \in Names, t \in Times}
NameInputs == {zm_proto_encode_device_v1(n, 0, 0, {}) : n \in Names}
OkInput == zm_proto_encode_ok(zm_proto_new)
\* frames that are no zm_proto message, and a text that is no configuration
GarbageFrames == [raw |-> "garbage"]
GarbageText == [text |-> "garbage"]

\* the message bodies that fit a subject (4.3: INSERT carries a device record,
\* DELETE and LOOKUP a device name; zm_device_test sends OK for the others).
\* A subject of no request comes with a body of any kind.
BodiesFor(subject, inserts) ==
    CASE subject = "INSERT" -> inserts
      [] subject \in {"DELETE", "LOOKUP"} -> NameInputs
      [] subject \in {"GET-ALL", "PUBLISH-ALL"} -> {OkInput}
      [] OTHER -> {OkInput, zm_proto_encode_device_v1("device1", 1, TestSize, {}),
                   zm_proto_encode_device_v1("device2", 0, 0, {})}

----------------------------------------------------------------------------
(* zconfig_t: the configuration tree, and the texts CONFIG may carry       *)

Config(endpoint, address, producer, consumer, file) ==
    [endpoint |-> endpoint, address |-> address, producer |-> producer,
     consumer |-> consumer, file |-> file]

TestConfig(file) ==
    Config(TestEndpoint, TestAddress, DeviceStream, {<<DeviceStream, ".*">>}, file)

ConfigTexts ==
    {TestConfig(f) : f \in FileNames \cup {NULL}}
    \cup {Config(NULL, TestAddress, NULL, {}, NULL),
          Config(TestEndpoint, NULL, NULL, {}, NULL)}

\* what the CONFIG command may carry: no frame, an unparsable text, a config text
ConfigPayloads == {Nil, GarbageText} \cup ConfigTexts

\* zconfig_str_load: the tree of a text, NULL for a text that does not parse
zconfig_str_load(str) == IF str \in ConfigTexts THEN str ELSE Nil

----------------------------------------------------------------------------
(* zm_devices_t: the device registry.  recs maps a name to the stored      *)
(* message, or to Nil; file is the backing file, NULL when there is none.  *)
(* A file's content is the records last stored to it.                      *)

NoRecs == [n \in Names |-> Nil]

\* the sequences that list every element of S once
SeqsOf(S) ==
    {o \in [1..Cardinality(S) -> S] : \A i, j \in DOMAIN o : i # j => o[i] # o[j]}

\* zm_devices_new (file): empty without a file, else loaded from the file
zm_devices_new(file, fs) ==
    [file |-> file, recs |-> IF file = NULL THEN NoRecs ELSE fs[file]]

\* zm_devices_file / zm_devices_set_file
zm_devices_file(d) == d.file
zm_devices_set_file(d, file) == [d EXCEPT !.file = file]

\* zm_devices_store: write the records to the backing file, if there is one
zm_devices_store(d, fs) ==
    IF d.file = NULL THEN fs ELSE [fs EXCEPT ![d.file] = d.recs]

\* zm_devices_insert: store a copy of the message under its device name
zm_devices_insert(d, m) == [d EXCEPT !.recs[m.device] = m]

\* zm_devices_delete: remove the record of that name, if any
zm_devices_delete(d, name) == [d EXCEPT !.recs[name] = Nil]

\* zm_devices_lookup: the stored message itself (no copy), or NULL
zm_devices_lookup(d, name) == d.recs[name]

Present(d) == {n \in Names : d.recs[n] # Nil}

\* zm_devices_size
zm_devices_size(d) == Cardinality(Present(d))

\* zm_devices_first / zm_devices_next: the orders an iteration may visit the
\* stored records in (the order is the hash table's, every record once)
Orders(d) == SeqsOf(Present(d))

----------------------------------------------------------------------------
(* mlm_client_t, and what a handler hands to it and to the registry.  out  *)
(* records, in order, the calls one handler run makes.                     *)

\* mlm_client_new: not connected, no producer, no consumer
mlm_client_new == [connected |-> FALSE, producer |-> NULL, consumers |-> {}]

\* mlm_client_set_producer, when the broker accepts it
mlm_client_set_producer(c, stream) == [c EXCEPT !.producer = stream]

\* zm_proto_sendto (msg, client, address, subject): a point-to-point message
SendTo(m, address, subject) ==
    [op |-> "sendto", address |-> address, subject |-> subject, body |-> m]

\* mlm_client_send / zm_proto_send_mlm: a broadcast on the producer's stream
Send(m, subject) == [op |-> "send", subject |-> subject, body |-> m]

\* calls on the registry
Call(op, arg) == [op |-> op, arg |-> arg]

\* the result of one mailbox handler run: the registry, the decode buffer, the
\* calls made, and whether the run ended normally
Run(d, m, o, ok) == [devices |-> d, msg |-> m, out |-> o, ok |-> ok]

----------------------------------------------------------------------------
(* The mailbox protocol handler, zm_device_recv_mlm_mailbox, branch by     *)
(* branch.  d is self->devices, m is self->msg as decoded, order is the    *)
(* order zm_devices_first/next visit the records in.                       *)

\* zm_device_publish: encode the message and send it on the producer's stream
zm_device_publish(m, subject) == Send(m, subject)

\* MailboxInsert with the acknowledgement addressed under the request's subject
MailboxInsert_ReplyUnderSubject(d, m, subject, sender) ==
    LET d1 == zm_devices_insert(d, m)
        pub == zm_device_publish(m, subject)
        ok == zm_proto_encode_ok(m)
    IN  Run(d1, ok, <<Call("insert", m.device), pub, SendTo(ok, sender, subject)>>, TRUE)

\* subject INSERT
MailboxInsert(d, m, subject, sender) ==
    LET d1 == zm_devices_insert(d, m)
        pub == zm_device_publish(m, subject)
        ok == zm_proto_encode_ok(m)
    IN  Run(d1, ok, <<Call("insert", m.device), pub, SendTo(ok, sender, "LOOKUP")>>, TRUE)

\* MailboxDelete with the acknowledgement sent before the broadcast
MailboxDelete_AckFirst(d, m, subject, sender) ==
    LET device == m.device
        d1 == zm_devices_delete(d, device)
        pub == zm_device_publish(m, subject)
        ok == zm_proto_encode_ok(m)
    IN  Run(d1, ok, <<Call("delete", device), SendTo(ok, sender, "LOOKUP"), pub>>, TRUE)

\* MailboxDelete that acknowledges and broadcasts without calling zm_devices_delete
MailboxDelete_KeepsRecord(d, m, subject, sender) ==
    LET pub == zm_device_publish(m, subject)
        ok == zm_proto_encode_ok(m)
    IN  Run(d, ok, <<pub, SendTo(ok, sender, "LOOKUP")>>, TRUE)

\* subject DELETE
MailboxDelete(d, m, subject, sender) ==
    LET device == m.device
        d1 == zm_devices_delete(d, device)
        pub == zm_device_publish(m, subject)
        ok == zm_proto_encode_ok(m)
    IN  Run(d1, ok, <<Call("delete", device), pub, SendTo(ok, sender, "LOOKUP")>>, TRUE)

\* MailboxLookup that never switches msg to the stored record: it sends self->msg
MailboxLookup_EchoRequest(d, m, subject, sender) ==
    LET reply == zm_devices_lookup(d, m.device)
    IN  IF reply # Nil
        THEN Run(d, m, <<SendTo(m, sender, "LOOKUP")>>, TRUE)
        ELSE LET err == zm_proto_encode_error(m, 404)
             IN  Run(d, err, <<SendTo(err, sender, "LOOKUP")>>, TRUE)

\* subject LOOKUP
MailboxLookup(d, m, subject, sender) ==
    LET reply == zm_devices_lookup(d, m.device)
    IN  IF reply # Nil
        THEN Run(d, m, <<SendTo(reply, sender, "LOOKUP")>>, TRUE)
        ELSE LET err == zm_proto_encode_error(m, 404)
             IN  Run(d, err, <<SendTo(err, sender, "LOOKUP")>>, TRUE)

\* the while loop of GET-ALL: i is the code's i, o the calls made so far
RECURSIVE GetAllLoop(_, _, _, _, _, _, _)
GetAllLoop(d, m, order, i, sender, subject, o) ==
    IF i >= Len(order)
    THEN Run(d, m, o, TRUE)
    ELSE LET n == order[i + 1]
             tagged == zm_proto_ext_set_int(d.recs[n], "_seq", i)
             d1 == [d EXCEPT !.recs[n] = tagged]
         IN  GetAllLoop(d1, m, order, i + 1, sender, subject,
                        Append(o, SendTo(tagged, sender, subject)))

\* MailboxGetAll that replies with the first record only (no loop)
MailboxGetAll_FirstOnly(d, m, subject, sender, order) ==
    IF zm_devices_size(d) = 0
    THEN LET err == zm_proto_encode_error(m, 404)
         IN  Run(d, err, <<SendTo(err, sender, "LOOKUP")>>, TRUE)
    ELSE LET first == order[1]
             d1 == [d EXCEPT !.recs[first] =
                        zm_proto_ext_set_int(@, "_cnt", zm_devices_size(d))]
         IN  GetAllLoop(d1, m, <<first>>, 0, sender, subject, <<>>)

\* MailboxGetAll without the test for an empty registry: like PUBLISH-ALL, it
\* goes through the NULL that zm_devices_first returns
MailboxGetAll_NoEmptyTest(d, m, subject, sender, order) ==
    IF zm_devices_size(d) = 0
    THEN Run(d, m, <<>>, FALSE)
    ELSE LET first == order[1]
             d1 == [d EXCEPT !.recs[first] =
                        zm_proto_ext_set_int(@, "_cnt", zm_devices_size(d))]
         IN  GetAllLoop(d1, m, order, 0, sender, subject, <<>>)

\* subject GET-ALL
MailboxGetAll(d, m, subject, sender, order) ==
    IF zm_devices_size(d) = 0
    THEN LET err == zm_proto_encode_error(m, 404)
         IN  Run(d, err, <<SendTo(err, sender, "LOOKUP")>>, TRUE)
    ELSE LET first == order[1]
             d1 == [d EXCEPT !.recs[first] =
                        zm_proto_ext_set_int(@, "_cnt", zm_devices_size(d))]
         IN  GetAllLoop(d1, m, order, 0, sender, subject, <<>>)

\* the while loop of PUBLISH-ALL
RECURSIVE PublishAllLoop(_, _, _, _, _, _)
PublishAllLoop(d, m, order, i, subject, o) ==
    IF i >= Len(order)
    THEN Run(d, m, o, TRUE)
    ELSE LET n == order[i + 1]
             tagged == zm_proto_ext_set_int(d.recs[n], "_seq", i)
             d1 == [d EXCEPT !.recs[n] = tagged]
         IN  PublishAllLoop(d1, m, order, i + 1, subject,
                            Append(o, Send(tagged, subject)))

\* MailboxPublishAll that broadcasts the first record only (no loop)
MailboxPublishAll_FirstOnly(d, m, subject, sender, order) ==
    IF zm_devices_size(d) = 0
    THEN Run(d, m, <<>>, FALSE)
    ELSE LET first == order[1]
             d1 == [d EXCEPT !.recs[first] =
                        zm_proto_ext_set_int(@, "_cnt", zm_devices_size(d))]
         IN  PublishAllLoop(d1, m, <<first>>, 0, subject, <<>>)

\* subject PUBLISH-ALL.  On an empty registry zm_devices_first returns NULL and
\* zm_proto_ext_set_int is called on it: the run does not end normally.
MailboxPublishAll(d, m, subject, sender, order) ==
    IF zm_devices_size(d) = 0
    THEN Run(d, m, <<>>, FALSE)
    ELSE LET first == order[1]
             d1 == [d EXCEPT !.recs[first] =
                        zm_proto_ext_set_int(@, "_cnt", zm_devices_size(d))]
         IN  PublishAllLoop(d1, m, order, 0, subject, <<>>)

\* MailboxOther that answers a device-kind body like LOOKUP does
MailboxOther_LooksUp(d, m, subject, sender) ==
    IF m.id = "DEVICE"
    THEN LET reply == zm_devices_lookup(d, m.device)
             err == zm_proto_encode_error(m, 404)
         IN  IF reply # Nil
             THEN Run(d, reply, <<SendTo(reply, sender, "LOOKUP")>>, TRUE)
             ELSE Run(d, err, <<SendTo(err, sender, "LOOKUP")>>, TRUE)
    ELSE LET err == zm_proto_encode_error(m, 403)
         IN  Run(d, err, <<SendTo(err, sender, "LOOKUP")>>, TRUE)

\* MailboxOther that encodes the error and sends nothing
MailboxOther_NoReply(d, m, subject, sender) ==
    Run(d, zm_proto_encode_error(m, 403), <<>>, TRUE)

\* any other subject
MailboxOther(d, m, subject, sender) ==
    LET err == zm_proto_encode_error(m, 403)
    IN  Run(d, err, <<SendTo(err, sender, "LOOKUP")>>, TRUE)

zm_device_recv_mlm_mailbox(d, m, subject, sender, order) ==
    CASE subject = "INSERT" -> MailboxInsert(d, m, subject, sender)
      [] subject = "DELETE" -> MailboxDelete(d, m, subject, sender)
      [] subject = "LOOKUP" -> MailboxLookup(d, m, subject, sender)
      [] subject = "GET-ALL" -> MailboxGetAll(d, m, subject, sender, order)
      [] subject = "PUBLISH-ALL" -> MailboxPublishAll(d, m, subject, sender, order)
      [] OTHER -> MailboxOther(d, m, subject, sender)

\* zm_proto_recv: the decoded message, or Nil when the frames do not decode
zm_proto_recv(frames) ==
    IF frames \in DeviceInputs \cup NameInputs \cup {OkInput} THEN frames ELSE Nil

----------------------------------------------------------------------------
(* The actor: struct _zm_device_t, and where its thread is.  self->msg, the *)
(* decode buffer, is written by zm_proto_recv at the start of every        *)
(* zm_device_recv_mlm before anything reads it: it is the m of that        *)
(* handler's run and carries nothing from one run to the next.             *)

VARIABLES
    pc,          \* "loop": in the event loop, "aborted": the process died on
                 \* an assertion or a NULL pointer, "destroyed": after
                 \* zm_device_destroy
    terminated,  \* self->terminated
    verbose,     \* self->verbose
    config,      \* self->config, Nil or a configuration tree
    client,      \* self->client, Nil or the Malamute client
    inPoller,    \* is the client's msgpipe in self->poller?
    consumers,   \* self->consumers, Nil or the streams to subscribe
    devices,     \* self->devices
    files,       \* the content of the backing files
    out,         \* the calls the last handler run made, in order
    last         \* the event the last handler run handled

vars == <<pc, terminated, verbose, config, client, inPoller, consumers,
          devices, files, out, last>>

Event(src, command, subject, sender, arg, result) ==
    [src |-> src, command |-> command, subject |-> subject, sender |-> sender,
     arg |-> arg, result |-> result]

Looping == pc = "loop" /\ ~terminated

\* zm_device_new, as zm_device_actor calls it
zm_device_new ==
    /\ pc' = "loop"
    /\ terminated' = FALSE
    /\ verbose' = FALSE
    /\ devices' = zm_devices_new(NULL, files')
    /\ config' = Nil
    /\ consumers' = Nil
    /\ client' = mlm_client_new
    /\ inPoller' = TRUE
    /\ out' = <<>>
    /\ last' = Event("new", NULL, NULL, NULL, Nil, 0)

Init ==
    /\ pc = "loop"
    /\ terminated = FALSE
    /\ verbose = FALSE
    /\ files = [f \in FileNames |-> NoRecs]
    /\ devices = zm_devices_new(NULL, files)
    /\ config = Nil
    /\ consumers = Nil
    /\ client = mlm_client_new
    /\ inPoller = TRUE
    /\ out = <<>>
    /\ last = Event("new", NULL, NULL, NULL, Nil, 0)

\* the process dies inside a handler: nothing more of the handler happens
Abort(ev) ==
    /\ pc' = "aborted"
    /\ last' = ev
    /\ out' = <<>>
    /\ UNCHANGED <<terminated, verbose, config, client, inPoller, consumers,
                   devices, files>>

----------------------------------------------------------------------------
(* zm_device_recv_api: the supervisor's commands                           *)

\* zm_device_cfg_endpoint / zm_device_cfg_address find nothing to connect with
NothingToConnect ==
    IF config = Nil THEN TRUE
    ELSE IF config.endpoint = NULL THEN TRUE ELSE config.address = NULL

\* a connect that creates the handle and leaves its msgpipe out of the poller
InPollerAfterNew_NotAdded(c, polled) == polled

\* is the handle's msgpipe in the poller once connect has made sure there is a
\* handle?  A handle it creates is added; one that exists stays as it was.
InPollerAfterNew(c, polled) == IF c = Nil THEN TRUE ELSE polled

\* zm_device_connect_to_malamute, once endpoint and address are known.  outcome
\* says how far the broker lets it get: "connect", "producer", "consumer" name
\* the call that returns -1 (the k-th mlm_client_set_consumer); order is the
\* order zm_device_cfg_consumer_first/next yield the consumers in.
zm_device_connect_to_malamute(outcome, order, k) ==
    /\ inPoller' = InPollerAfterNew(client, inPoller)
    /\ LET c0 == IF client = Nil THEN mlm_client_new ELSE client
           c1 == [c0 EXCEPT !.connected = TRUE]
           c2 == IF config.producer # NULL
                 THEN mlm_client_set_producer(c1, config.producer) ELSE c1
           calls0 == IF client = Nil THEN <<Call("mlm_client_new", NULL)>> ELSE <<>>
           calls1 == Append(calls0, Call("connect", config.endpoint))
           calls2 == IF config.producer # NULL
                     THEN Append(calls1, Call("set_producer", config.producer))
                     ELSE calls1
           n == IF outcome = "consumer" THEN k ELSE Len(order)
           calls3 == calls2 \o [i \in 1..n |-> Call("set_consumer", order[i])]
           declared == {order[i] : i \in 1..(IF outcome = "consumer" THEN k - 1 ELSE n)}
       IN  CASE outcome = "connect" ->
                  /\ client' = c0
                  /\ out' = calls1
                  /\ UNCHANGED consumers
             [] outcome = "producer" ->
                  /\ config.producer # NULL
                  /\ client' = c1
                  /\ out' = calls2
                  /\ UNCHANGED consumers
             [] outcome = "consumer" ->
                  /\ k \in 1..Len(order)
                  /\ client' = [c2 EXCEPT !.consumers = @ \cup declared]
                  /\ out' = calls3
                  /\ consumers' = config.consumer
             [] outcome = "ok" ->
                  /\ client' = [c2 EXCEPT !.consumers = @ \cup declared]
                  /\ out' = calls3
                  /\ consumers' = config.consumer

ConnectOutcomes == {"connect", "producer", "consumer", "ok"}

\* command START: zm_device_start
Start ==
    /\ Looping
    /\ IF NothingToConnect
       THEN /\ last' = Event("pipe", "START", NULL, NULL, Nil, -1)
            /\ out' = <<>>
            /\ UNCHANGED <<client, inPoller, consumers>>
       ELSE \E outcome \in ConnectOutcomes :
            \E order \in SeqsOf(config.consumer) :
            \E k \in 1..(IF outcome = "consumer" THEN Len(order) ELSE 1) :
               /\ zm_device_connect_to_malamute(outcome, order, k)
               /\ last' = Event("pipe", "START", NULL, NULL, [broker |-> outcome],
                                IF outcome = "ok" THEN 0 ELSE -1)
    /\ UNCHANGED <<pc, terminated, verbose, config, devices, files>>

\* zm_device_stop.  mlm_client_msgpipe (NULL) asserts (or reads through NULL).
zm_device_stop(ev) ==
    IF client = Nil
    THEN Abort(ev)
    ELSE /\ inPoller' = FALSE
         /\ client' = Nil
         /\ files' = zm_devices_store(devices, files)
         /\ out' = <<Call("mlm_client_destroy", client), Call("store", devices.file)>>
         /\ last' = ev
         /\ UNCHANGED <<pc, terminated, verbose, config, consumers, devices>>

\* command STOP
Stop ==
    /\ Looping
    /\ zm_device_stop(Event("pipe", "STOP", NULL, NULL, Nil, 0))

\* command VERBOSE
Verbose ==
    /\ Looping
    /\ verbose' = TRUE
    /\ out' = <<>>
    /\ last' = Event("pipe", "VERBOSE", NULL, NULL, Nil, 0)
    /\ UNCHANGED <<pc, terminated, config, client, inPoller, consumers,
                   devices, files>>

\* $TERM that is taken off the pipe without setting the flag
Term_FlagNotSet ==
    /\ Looping
    /\ out' = <<>>
    /\ last' = Event("pipe", "$TERM", NULL, NULL, Nil, 0)
    /\ UNCHANGED <<pc, terminated, verbose, config, client, inPoller, consumers,
                   devices, files>>

\* command $TERM
Term ==
    /\ Looping
    /\ terminated' = TRUE
    /\ out' = <<>>
    /\ last' = Event("pipe", "$TERM", NULL, NULL, Nil, 0)
    /\ UNCHANGED <<pc, verbose, config, client, inPoller, consumers,
                   devices, files>>

\* Rebinds that skips a server/file equal to the registry's backing file
Rebinds_OnlyWhenDiffers(foo, d) == foo.file # NULL /\ foo.file # zm_devices_file(d)

\* does CONFIG with this configuration persist and rebuild the registry?
Rebinds(foo, d) == foo.file # NULL

\* zm_device_config that destroys the old configuration before it loads the text
zm_device_config_DropsOld(payload) ==
    LET foo == IF payload = Nil THEN Nil ELSE zconfig_str_load(payload)
    IN  IF foo = Nil
        THEN /\ last' = Event("pipe", "CONFIG", NULL, NULL, payload, -1)
             /\ out' = <<>>
             /\ config' = Nil
             /\ UNCHANGED <<devices, files>>
        ELSE /\ last' = Event("pipe", "CONFIG", NULL, NULL, payload, 0)
             /\ config' = foo
             /\ IF Rebinds(foo, devices)
                THEN LET bind == zm_devices_file(devices) = NULL
                         d0 == IF bind THEN zm_devices_set_file(devices, foo.file)
                               ELSE devices
                     IN  /\ files' = zm_devices_store(d0, files)
                         /\ devices' = zm_devices_new(foo.file, files')
                         /\ out' = (IF bind THEN <<Call("set_file", foo.file)>>
                                    ELSE <<>>)
                                   \o <<Call("store", d0.file), Call("destroy", d0.file),
                                        Call("new", foo.file)>>
                ELSE /\ out' = <<>>
                     /\ UNCHANGED <<devices, files>>

\* zm_device_config: the frame after CONFIG is the configuration as text
zm_device_config(payload) ==
    LET foo == IF payload = Nil THEN Nil ELSE zconfig_str_load(payload)
    IN  IF foo = Nil
        THEN /\ last' = Event("pipe", "CONFIG", NULL, NULL, payload, -1)
             /\ out' = <<>>
             /\ UNCHANGED <<config, devices, files>>
        ELSE /\ last' = Event("pipe", "CONFIG", NULL, NULL, payload, 0)
             /\ config' = foo
             /\ IF Rebinds(foo, devices)
                THEN LET bind == zm_devices_file(devices) = NULL
                         d0 == IF bind THEN zm_devices_set_file(devices, foo.file)
                               ELSE devices
                     IN  /\ files' = zm_devices_store(d0, files)
                         /\ devices' = zm_devices_new(foo.file, files')
                         /\ out' = (IF bind THEN <<Call("set_file", foo.file)>>
                                    ELSE <<>>)
                                   \o <<Call("store", d0.file), Call("destroy", d0.file),
                                        Call("new", foo.file)>>
                ELSE /\ out' = <<>>
                     /\ UNCHANGED <<devices, files>>

\* command CONFIG, its text drawn from payloads
ConfigureOf(payloads) ==
    /\ Looping
    /\ \E payload \in payloads : zm_device_config(payload)
    /\ UNCHANGED <<pc, terminated, verbose, client, inPoller, consumers>>

\* any other command: assert (false)
BadCommand ==
    /\ Looping
    /\ Abort(Event("pipe", "BOGUS", NULL, NULL, Nil, -1))

----------------------------------------------------------------------------
(* zm_device_recv_mlm: one message from the broker                         *)

\* zm_device_recv_mlm that answers a message it cannot decode with an error
zm_device_recv_mlm_AnswersGarbage(command, subject, sender, frames) ==
    LET m == zm_proto_recv(frames)
        ev == Event("mlm", command, subject, sender, frames, 0)
    IN  IF m = Nil
        THEN /\ last' = [ev EXCEPT !.result = -1]
             /\ out' = <<SendTo(zm_proto_encode_error(zm_proto_new, 403),
                                sender, "LOOKUP")>>
             /\ UNCHANGED <<pc, devices>>
        ELSE IF command = "MAILBOX DELIVER"
        THEN \E order \in Orders(devices) :
               LET r == zm_device_recv_mlm_mailbox(devices, m, subject, sender, order)
               IN  /\ pc' = IF r.ok THEN pc ELSE "aborted"
                   /\ devices' = r.devices
                   /\ out' = r.out
                   /\ last' = ev
        ELSE /\ out' = <<>>
             /\ last' = ev
             /\ UNCHANGED <<pc, devices>>

zm_device_recv_mlm(command, subject, sender, frames) ==
    LET m == zm_proto_recv(frames)
        ev == Event("mlm", command, subject, sender, frames, 0)
    IN  IF m = Nil
        THEN /\ last' = [ev EXCEPT !.result = -1]
             /\ out' = <<>>
             /\ UNCHANGED <<pc, devices>>
        ELSE IF command = "MAILBOX DELIVER"
        THEN \E order \in Orders(devices) :
               LET r == zm_device_recv_mlm_mailbox(devices, m, subject, sender, order)
               IN  /\ pc' = IF r.ok THEN pc ELSE "aborted"
                   /\ devices' = r.devices
                   /\ out' = r.out
                   /\ last' = ev
        ELSE /\ out' = <<>>
             /\ last' = ev
             /\ UNCHANGED <<pc, devices>>

\* the poller returns the client's msgpipe: the client exists and is connected
BrokerReady == Looping /\ client # Nil /\ inPoller /\ client.connected

\* a point-to-point message, its subject drawn from subjects, the records of
\* its INSERTs from inserts
MailboxOf(subjects, inserts) ==
    /\ BrokerReady
    /\ \E subject \in subjects, sender \in Senders :
       \E frames \in BodiesFor(subject, inserts) \cup {GarbageFrames} :
          zm_device_recv_mlm("MAILBOX DELIVER", subject, sender, frames)
    /\ UNCHANGED <<terminated, verbose, config, client, inPoller, consumers, files>>

Stream ==
    /\ BrokerReady
    /\ client.consumers # {}
    /\ \E subject \in {"INSERT"}, sender \in Senders :
       \E frames \in {zm_proto_encode_device_v1("device1", 1, TestSize, {}),
                       OkInput, GarbageFrames} :
          zm_device_recv_mlm("STREAM DELIVER", subject, sender, frames)
    /\ UNCHANGED <<terminated, verbose, config, client, inPoller, consumers, files>>

Service ==
    /\ BrokerReady
    /\ \E sender \in Senders :
       \E frames \in {OkInput, GarbageFrames} :
          zm_device_recv_mlm("SERVICE DELIVER", "FOO", sender, frames)
    /\ UNCHANGED <<terminated, verbose, config, client, inPoller, consumers, files>>

----------------------------------------------------------------------------
(* zm_device_actor: the rest of the loop                                   *)

\* zpoller_wait returns NULL (nothing ready within the timeout of 0): the loop
\* still evaluates mlm_client_msgpipe (self->client)
Idle ==
    /\ Looping
    /\ IF client = Nil
       THEN Abort(Event("idle", NULL, NULL, NULL, Nil, -1))
       ELSE /\ last' = Event("idle", NULL, NULL, NULL, Nil, 0)
            /\ out' = <<>>
            /\ UNCHANGED <<pc, terminated, verbose, config, client, inPoller,
                           consumers, devices, files>>

\* the loop ends: zm_device_destroy
Exit ==
    /\ pc = "loop"
    /\ terminated
    /\ pc' = "destroyed"
    /\ files' = zm_devices_store(devices, files)
    /\ out' = <<Call("store", devices.file), Call("destroy", devices.file)>>
    /\ last' = Event("exit", NULL, NULL, NULL, Nil, 0)
    /\ config' = Nil
    /\ consumers' = Nil
    /\ client' = Nil
    /\ inPoller' = FALSE
    /\ devices' = Nil
    /\ UNCHANGED <<terminated, verbose>>

\* the supervisor creates the actor again (zactor_new) after zactor_destroy: a
\* new instance, the backing files are what the old one left
Restart ==
    /\ pc = "destroyed"
    /\ UNCHANGED files
    /\ zm_device_new

----------------------------------------------------------------------------
(* Two specifications of the same actor.  Spec exercises the whole mailbox *)
(* protocol under configurations without server/file; SpecStore exercises  *)
(* every configuration, the backing files included, with the subjects that *)
(* change or read single records.                                          *)

Mailbox == MailboxOf(Subjects, DeviceInputs)
Configure == ConfigureOf({p \in ConfigPayloads : p \in ConfigTexts => p.file = NULL})

Next ==
    \/ Start
    \/ Stop
    \/ Verbose
    \/ Term
    \/ Configure
    \/ BadCommand
    \/ Mailbox
    \/ Stream
    \/ Service
    \/ Idle
    \/ Exit
    \/ Restart

Spec == Init /\ [][Next]_vars

MailboxStore ==
    MailboxOf({"INSERT", "DELETE", "LOOKUP"},
              {zm_proto_encode_device_v1(n, 1, TestSize, {}) : n \in Names})
ConfigureStore == ConfigureOf(ConfigPayloads)

NextStore ==
    \/ Start
    \/ Stop
    \/ Verbose
    \/ Term
    \/ ConfigureStore
    \/ BadCommand
    \/ MailboxStore
    \/ Stream
    \/ Service
    \/ Idle
    \/ Exit
    \/ Restart

SpecStore == Init /\ [][NextStore]_vars

\* the actor's thread keeps running: once the loop condition fails, the thread
\* goes on to zm_device_destroy
SpecStoreLive == SpecStore /\ WF_vars(Exit)

----------------------------------------------------------------------------
(* What the last handler run did                                           *)

\* the last event was a decoded point-to-point message with this subject
MailboxDone(subject) ==
    /\ last.src = "mlm"
    /\ last.command = "MAILBOX DELIVER"
    /\ last.result = 0
    /\ last.subject = subject

\* a step that handles a decoded point-to-point message with this subject
MailboxStep(subject) ==
    /\ Looping
    /\ last'.src = "mlm"
    /\ last'.command = "MAILBOX DELIVER"
    /\ last'.result = 0
    /\ last'.subject = subject

IsReply(e) == e.op = "sendto"
IsBroadcast(e) == e.op = "send"
Replies(o) == SelectSeq(o, IsReply)
Broadcasts(o) == SelectSeq(o, IsBroadcast)

\* the messages of o are device messages, one for each record of the registry d
OnePerRecord(o, d) ==
    /\ Len(o) = zm_devices_size(d)
    /\ \A i \in DOMAIN o : o[i].body.id = "DEVICE"
    /\ {o[i].body.device : i \in DOMAIN o} = Present(d)

\* the _seq values of the messages of o are 0 .. Len(o)-1, each once
SeqNumbered(o) ==
    /\ \A i \in DOMAIN o : ext_has(o[i].body, "_seq")
    /\ {zm_proto_ext_int(o[i].body, "_seq", -1) : i \in DOMAIN o} = 0..(Len(o) - 1)

----------------------------------------------------------------------------
(* C1: handling GET-ALL over a registry of N >= 1 records sends exactly N  *)
(* point-to-point replies to the request's sender and nothing else, one    *)
(* per record, whose _seq values are exactly 0 .. N-1, each once.          *)
C1_GetAllReplies ==
    [][(MailboxStep("GET-ALL") /\ zm_devices_size(devices) >= 1) =>
          /\ Len(out') = zm_devices_size(devices)
          /\ \A i \in DOMAIN out' :
                IsReply(out'[i]) /\ out'[i].address = last'.sender
          /\ OnePerRecord(out', devices)
          /\ SeqNumbered(out')]_vars

\* a GET-ALL over two records has been answered
C1_Witness ==
    /\ MailboxDone("GET-ALL")
    /\ zm_devices_size(devices) = 2
    /\ Len(Replies(out)) = 2

(* C2: every message of a GET-ALL or PUBLISH-ALL over N >= 1 records       *)
(* carries _cnt equal to N, the size of the registry before the iteration. *)
C2_CntOnEveryMessage ==
    [][((MailboxStep("GET-ALL") \/ MailboxStep("PUBLISH-ALL"))
        /\ zm_devices_size(devices) >= 1) =>
          \A i \in DOMAIN out' :
             zm_proto_ext_int(out'[i].body, "_cnt", -1) = zm_devices_size(devices)]_vars

(* C3: every point-to-point reply is addressed under subject "LOOKUP",     *)
(* whatever the request's subject was.                                     *)
C3_ReplySubjectLookup ==
    \A i \in DOMAIN out : IsReply(out[i]) => out[i].subject = "LOOKUP"

(* C3 as amended: every point-to-point reply is addressed under "LOOKUP",  *)
(* except the replies of a GET-ALL over a registry that is not empty,      *)
(* which are addressed under the request's subject, "GET-ALL".             *)
C3_ReplySubject ==
    \A i \in DOMAIN out :
       IsReply(out[i]) =>
          out[i].subject =
             (IF MailboxDone("GET-ALL") /\ out[i].body.id = "DEVICE"
              THEN "GET-ALL" ELSE "LOOKUP")

\* a GET-ALL over a registry that is not empty has been answered under "GET-ALL"
C3_Witness ==
    /\ MailboxDone("GET-ALL")
    /\ out # <<>>
    /\ \A i \in DOMAIN out : IsReply(out[i]) /\ out[i].subject = "GET-ALL"

(* C4: handling PUBLISH-ALL while the registry is empty emits nothing and  *)
(* ends normally: the actor is in its loop, able to handle the next event. *)
C4_PublishAllEmpty ==
    [][(MailboxStep("PUBLISH-ALL") /\ zm_devices_size(devices) = 0) =>
          (pc' = "loop" /\ out' = <<>>)]_vars

C6_LookupUntagged ==
    MailboxDone("LOOKUP") =>
       \A i \in DOMAIN out :
          (IsReply(out[i]) /\ out[i].body.id = "DEVICE") =>
             (~ext_has(out[i].body, "_seq") /\ ~ext_has(out[i].body, "_cnt"))

(* C10: an INSERT or DELETE run makes exactly three calls in this order:   *)
(* the registry mutation, the broadcast of the request's record under the  *)
(* request's subject, the OK acknowledgement to the sender; so no          *)
(* acknowledgement is sent before the broadcast is queued.                 *)
C10_MutatePublishAck ==
    \A subject \in {"INSERT", "DELETE"} :
       MailboxDone(subject) =>
          /\ Len(out) = 3
          /\ out[1] = Call(IF subject = "INSERT" THEN "insert" ELSE "delete",
                           last.arg.device)
          /\ IsBroadcast(out[2])
          /\ out[2].subject = subject
          /\ out[2].body = last.arg
          /\ IsReply(out[3])
          /\ out[3].body.id = "OK"
          /\ out[3].address = last.sender
          /\ IF subject = "INSERT"
             THEN devices.recs[last.arg.device] = last.arg
             ELSE devices.recs[last.arg.device] = Nil

\* an INSERT has been handled: its record is stored, broadcast and acknowledged
C10_Witness ==
    /\ MailboxDone("INSERT")
    /\ Len(Broadcasts(out)) = 1
    /\ Len(Replies(out)) = 1
    /\ devices.recs[last.arg.device] = last.arg

----------------------------------------------------------------------------
(* Claims about the supervisor's commands, checked under SpecStore         *)

\* a step that handles the supervisor's command
ApiStep(command) ==
    /\ Looping
    /\ last'.src = "pipe"
    /\ last'.command = command

\* the last event was a CONFIG that loaded its configuration
ConfigDone ==
    /\ last.src = "pipe"
    /\ last.command = "CONFIG"
    /\ last.result = 0

\* o persists the registry and then builds a new one
Rebuilt(o) ==
    \E i, j \in DOMAIN o : i < j /\ o[i].op = "store" /\ o[j].op = "new"

(* C7: STOP handled when the broker handle is already gone (a second STOP  *)
(* with no START in between) succeeds and changes nothing: no handle, the  *)
(* channel out of the poll set, the registry persisted.                    *)
C7_StopIdempotent ==
    [][(ApiStep("STOP") /\ client = Nil) =>
          /\ pc' = "loop"
          /\ client' = Nil
          /\ ~inPoller'
          /\ devices' = devices
          /\ files' = zm_devices_store(devices, files)]_vars

(* C8: a successful CONFIG that binds the registry to a file F it was not  *)
(* bound to (also when it was bound to none, as after a restart) leaves in *)
(* the registry every record F held before.                                *)
C8_BindKeepsFlushed ==
    [][(ApiStep("CONFIG") /\ last'.result = 0) =>
          LET F == last'.arg.file
          IN  (F # NULL /\ zm_devices_file(devices) # F) =>
                 \A n \in Names :
                    files[F][n] # Nil => devices'.recs[n] = files[F][n]]_vars

(* C9: a successful CONFIG persists and rebuilds the registry exactly when *)
(* server/file is there and differs from the registry's backing file;      *)
(* otherwise the registry is not rebuilt and its contents do not change.   *)
C9_RebindWhenDiffers ==
    [][(ApiStep("CONFIG") /\ last'.result = 0) =>
          LET F == last'.arg.file
          IN  IF F # NULL /\ F # zm_devices_file(devices)
              THEN Rebuilt(out') /\ zm_devices_file(devices') = F
              ELSE ~Rebuilt(out') /\ devices' = devices]_vars

(* C9 as amended: a successful CONFIG persists and rebuilds the registry   *)
(* exactly when server/file is there, whether or not it differs from the   *)
(* registry's backing file: the records go to the backing file (to         *)
(* server/file when there was none) and the new registry is bound to       *)
(* server/file and holds that file's records.  Without server/file the     *)
(* registry and the files are left alone.                                  *)
C9_RebindWhenFile ==
    [][(ApiStep("CONFIG") /\ last'.result = 0) =>
          LET F == last'.arg.file
              stored == IF zm_devices_file(devices) = NULL THEN F
                        ELSE zm_devices_file(devices)
          IN  IF F # NULL
              THEN /\ Rebuilt(out')
                   /\ files' = [files EXCEPT ![stored] = devices.recs]
                   /\ zm_devices_file(devices') = F
                   /\ devices'.recs = files'[F]
              ELSE /\ ~Rebuilt(out')
                   /\ devices' = devices
                   /\ files' = files]_vars

\* a CONFIG whose server/file is the file the registry was already bound to has
\* persisted and rebuilt a registry that holds a record
C9_Witness ==
    /\ ConfigDone
    /\ last.arg.file # NULL
    /\ out = <<Call("store", last.arg.file), Call("destroy", last.arg.file),
               Call("new", last.arg.file)>>
    /\ zm_devices_size(devices) >= 1

----------------------------------------------------------------------------
(* Round trips of the mailbox protocol, checked under Spec                 *)

(* C11: a LOOKUP of d's name handled right after INSERT(d) is answered     *)
(* with one reply, a device record equal to d (name, timestamp, size and   *)
(* annotations), whatever the registry held before, also a record of that  *)
(* name.                                                                   *)
C11_InsertLookup ==
    [][(MailboxDone("INSERT") /\ MailboxStep("LOOKUP")
        /\ last'.arg.device = last.arg.device) =>
          out' = <<SendTo(last.arg, last'.sender, "LOOKUP")>>]_vars

\* a LOOKUP has returned a record with the second timestamp that carries no
\* _seq, while the other record carries the _seq and _cnt of an emission over
\* both names: the record returned was inserted after that emission
C11_Witness ==
    /\ MailboxDone("LOOKUP")
    /\ Len(out) = 1
    /\ out[1].body.id = "DEVICE"
    /\ out[1].body.time = 2
    /\ ~ext_has(out[1].body, "_seq")
    /\ \E n \in Names :
          /\ n # out[1].body.device
          /\ devices.recs[n] # Nil
          /\ ext_has(devices.recs[n], "_seq")
          /\ zm_proto_ext_int(devices.recs[n], "_cnt", -1) = 2

(* C12: handling DELETE of a name sends the sender one reply, an OK         *)
(* acknowledgement, whether or not a record of that name was stored, and a *)
(* LOOKUP of the same name handled right after it is answered with exactly *)
(* one message, an error of code 404.                                      *)
C12_DeleteLookup ==
    [][/\ MailboxStep("DELETE") =>
             /\ Len(Replies(out')) = 1
             /\ Replies(out')[1] =
                   SendTo(zm_proto_encode_ok(last'.arg), last'.sender, "LOOKUP")
             /\ pc' = "loop"
       /\ (MailboxDone("DELETE") /\ MailboxStep("LOOKUP")
           /\ last'.arg.device = last.arg.device) =>
             out' = <<SendTo(zm_proto_encode_error(last'.arg, 404),
                             last'.sender, "LOOKUP")>>]_vars

\* a LOOKUP has been answered 404 for a name that is absent, while the record
\* of the other name is stored and carries the _cnt of an emission over a
\* registry of one: the name looked up was absent at that emission too
C12_Witness ==
    /\ MailboxDone("LOOKUP")
    /\ Len(out) = 1
    /\ out[1].body.id = "ERROR"
    /\ out[1].body.code = 404
    /\ devices.recs[last.arg.device] = Nil
    /\ \E n \in Names :
          /\ devices.recs[n] # Nil
          /\ zm_proto_ext_int(devices.recs[n], "_cnt", -1) = 1

(* C13: handling PUBLISH-ALL over a registry of N >= 1 records makes        *)
(* exactly N broadcasts under subject "PUBLISH-ALL" and sends no            *)
(* point-to-point message, one broadcast per record, whose _seq values are *)
(* exactly 0 .. N-1, each once.                                            *)
C13_PublishAllBroadcasts ==
    [][(MailboxStep("PUBLISH-ALL") /\ zm_devices_size(devices) >= 1) =>
          /\ Len(out') = zm_devices_size(devices)
          /\ \A i \in DOMAIN out' :
                IsBroadcast(out'[i]) /\ out'[i].subject = "PUBLISH-ALL"
          /\ Replies(out') = <<>>
          /\ OnePerRecord(out', devices)
          /\ SeqNumbered(out')
          /\ pc' = "loop"]_vars

\* a PUBLISH-ALL over two records has made two broadcasts
C13_Witness ==
    /\ MailboxDone("PUBLISH-ALL")
    /\ zm_devices_size(devices) = 2
    /\ Len(out) = 2
    /\ IsBroadcast(out[1]) /\ IsBroadcast(out[2])
    /\ out[1].body.device # out[2].body.device

----------------------------------------------------------------------------
(* Reconnecting                                                            *)

\* the handle c is connected and carries the declarations of configuration cfg
DeclaredAs(c, cfg) ==
    /\ c.connected
    /\ c.producer = cfg.producer
    /\ c.consumers = cfg.consumer

\* the last event was a STOP that ended normally: out[1] holds the handle it
\* destroyed
StopDone ==
    /\ pc = "loop"
    /\ last.src = "pipe"
    /\ last.command = "STOP"

(* C14: with a configuration that has endpoint and address, and a broker   *)
(* handle connected with that configuration's declarations, STOP followed  *)
(* by START, the broker accepting the connection and every declaration,    *)
(* succeeds and leaves the handle, back in the poll set, connected with    *)
(* exactly the producer topic and the consumer subscriptions the handle    *)
(* had before the STOP.                                                    *)
C14_Reconnect ==
    [][(StopDone /\ ApiStep("START") /\ last'.arg = [broker |-> "ok"]
        /\ DeclaredAs(out[1].arg, config)) =>
          /\ last'.result = 0
          /\ client' # Nil
          /\ inPoller'
          /\ client'.connected
          /\ client'.producer = out[1].arg.producer
          /\ client'.consumers = out[1].arg.consumers]_vars

\* a START has succeeded on a handle it had to create (in the loop the handle
\* is missing only after a STOP), and the handle carries a producer topic and
\* a subscription
C14_Witness ==
    /\ pc = "loop"
    /\ last.src = "pipe"
    /\ last.command = "START"
    /\ last.result = 0
    /\ out[1] = Call("mlm_client_new", NULL)
    /\ client.connected
    /\ client.producer = DeviceStream
    /\ client.consumers # {}

----------------------------------------------------------------------------
(* C15: a CONFIG command with no payload or with a text that does not      *)
(* parse reports a negative status and changes nothing of the actor: the   *)
(* configuration, the registry (object, backing file, records), the files, *)
(* the broker handle and its place in the poll set, the consumer list, the *)
(* termination and verbosity flags.                                        *)
C15_BadConfigNoChange ==
    [][(ApiStep("CONFIG") /\ last'.arg \in {Nil, GarbageText}) =>
          /\ last'.result = -1
          /\ out' = <<>>
          /\ UNCHANGED <<pc, terminated, verbose, config, client, inPoller,
                         consumers, devices, files>>]_vars

\* a CONFIG has failed in an actor that is configured, bound to a file, holds
\* a record and is connected to the broker
C15_Witness ==
    /\ pc = "loop"
    /\ last.src = "pipe"
    /\ last.command = "CONFIG"
    /\ last.result = -1
    /\ config # Nil
    /\ zm_devices_file(devices) # NULL
    /\ zm_devices_size(devices) >= 1
    /\ client # Nil
    /\ verbose

----------------------------------------------------------------------------
(* C16: handling GET-ALL while the registry is empty sends exactly one     *)
(* message, a reply to the sender that is an error of code 404 and carries *)
(* neither _seq nor _cnt; nothing is broadcast, the registry stays empty   *)
(* and the actor goes on.                                                  *)
C16_GetAllEmpty ==
    [][(MailboxStep("GET-ALL") /\ zm_devices_size(devices) = 0) =>
          /\ Len(out') = 1
          /\ IsReply(out'[1])
          /\ out'[1].address = last'.sender
          /\ out'[1].body.id = "ERROR"
          /\ out'[1].body.code = 404
          /\ out'[1].body.ext = {}
          /\ devices' = devices
          /\ pc' = "loop"]_vars

\* a GET-ALL has been answered with one error 404 by a registry that is empty
C16_Witness ==
    /\ MailboxDone("GET-ALL")
    /\ pc = "loop"
    /\ zm_devices_size(devices) = 0
    /\ Len(out) = 1
    /\ IsReply(out[1])
    /\ out[1].body.code = 404

----------------------------------------------------------------------------
(* C17: a point-to-point request whose subject is none of INSERT, DELETE,  *)
(* LOOKUP, GET-ALL, PUBLISH-ALL is answered with exactly one message, a    *)
(* reply to the sender that is an error of code 403, whatever message the  *)
(* body decodes to; nothing is broadcast and the registry is unchanged.    *)
C17_UnknownSubject ==
    [][(\E subject \in Subjects \ {"INSERT", "DELETE", "LOOKUP", "GET-ALL",
                                    "PUBLISH-ALL"} : MailboxStep(subject)) =>
          /\ out' = <<SendTo(zm_proto_encode_error(last'.arg, 403),
                             last'.sender, "LOOKUP")>>
          /\ devices' = devices
          /\ pc' = "loop"]_vars

\* a request under subject FOO whose body names a stored record has been
\* answered with one error 403
C17_Witness ==
    /\ MailboxDone("FOO")
    /\ last.arg.id = "DEVICE"
    /\ devices.recs[last.arg.device] # Nil
    /\ Len(out) = 1
    /\ IsReply(out[1])
    /\ out[1].body.id = "ERROR"
    /\ out[1].body.code = 403

----------------------------------------------------------------------------
(* Termination, checked under SpecStoreLive                                *)

\* the loop has ended and zm_device_destroy has run
Released ==
    /\ pc = "destroyed"
    /\ config = Nil
    /\ client = Nil
    /\ devices = Nil

(* C18: handling $TERM sets the termination flag; the flag stays set for   *)
(* the rest of that actor's life; with the flag set the loop handles no    *)
(* further command or message: the one step left is the release of the     *)
(* configuration, the broker handle and the registry, the registry         *)
(* persisted to its backing file first; and whenever $TERM has been        *)
(* handled the actor eventually is in that released state.                 *)
C18_TermReleases ==
    /\ [][ApiStep("$TERM") => (terminated' /\ pc' = "loop")]_vars
    /\ [][(terminated /\ ~terminated') => last'.src = "new"]_vars
    /\ [][(terminated /\ pc = "loop") =>
             /\ last'.src = "exit"
             /\ Released'
             /\ terminated'
             /\ files' = zm_devices_store(devices, files)]_vars
    /\ []((terminated /\ pc = "loop") => <>Released)

\* the actor is released after a $TERM, and the final persist has left in a
\* backing file a record that the registry held
C18_Witness ==
    /\ Released
    /\ terminated
    /\ last.src = "exit"
    /\ out[1].op = "store"
    /\ out[1].arg # NULL
    /\ \E n \in Names : files[out[1].arg][n] # Nil

----------------------------------------------------------------------------
(* C19, checked under Spec: a broker message that does not decode is       *)
(* dropped, whatever its delivery kind and subject: the handler returns    *)
(* with the failure, makes no call (no reply, no broadcast, no registry    *)
(* call of the mailbox handler), and changes nothing of the actor.         *)
C19_UndecodableDropped ==
    [][(Looping /\ last'.src = "mlm" /\ zm_proto_recv(last'.arg) = Nil) =>
          /\ last'.result = -1
          /\ out' = <<>>
          /\ UNCHANGED <<pc, terminated, verbose, config, client, inPoller,
                         consumers, devices, files>>]_vars

\* an undecodable point-to-point message under subject DELETE has been dropped
\* by an actor whose registry holds two records
C19_Witness ==
    /\ last.src = "mlm"
    /\ last.command = "MAILBOX DELIVER"
    /\ last.subject = "DELETE"
    /\ last.arg = GarbageFrames
    /\ last.result = -1
    /\ out = <<>>
    /\ zm_devices_size(devices) = 2

----------------------------------------------------------------------------
(* C20, checked under Spec: the actor dereferences its broker handle only  *)
(* when the handle exists.  While the handle is missing (after STOP,       *)
(* before the next START), every loop iteration, the one where the poll    *)
(* returns neither channel included, and every CONFIG, VERBOSE, STOP and   *)
(* $TERM is handled without touching the handle: the actor goes on.        *)
C20_HandleExistsWhenUsed ==
    [][(Looping /\ client = Nil
        /\ \/ last'.src = "idle"
           \/ last'.src = "pipe"
              /\ last'.command \in {"CONFIG", "VERBOSE", "STOP", "$TERM"}) =>
          pc' = "loop"]_vars
====
